---- MODULE Spec2Model ----
(***************************************************************************)
(* Model of the layer builders of mcp_railway:                             *)
(*   src/app/scripts/build_layer_10_financial.py  (financial layer 10)     *)
(*   src/app/scripts/build_layer_20_personal.py   (personnel layer 20)     *)
(*   src/app/mcp_http.py                          (the two MCP tools)      *)
(*                                                                         *)
(* A Python str is a sequence of one-character strings.  A pandas          *)
(* DataFrame is a record [columns, rows]: columns is the sequence of       *)
(* column labels and each row is the sequence of its cells, aligned with   *)
(* columns.  Every cell is the str() of the value pandas read.             *)
(***************************************************************************)
EXTENDS Integers, Sequences, FiniteSets, TLC

(***************************************************************************)
(* Bounds of the model.                                                    *)
(***************************************************************************)
\* longest code handed to the padding rule on its own (SpecPad)
MaxCodeLen == 3
\* widest pad handed to the padding rule on its own (SpecPad)
MaxPad == 3
\* most rows of the input table of the financial tool
MaxRows == 2
\* most columns of an input file whose header varies
MaxCols == 4
\* most rows of the roles table
MaxRoles == 2
\* most rows of the employees table
MaxEmps == 2

(***************************************************************************)
(* Python str primitives.                                                  *)
(***************************************************************************)
Digits == <<"0", "1", "2", "3", "4", "5", "6", "7", "8", "9">>

UpperChars == <<"A", "B", "C", "D", "E", "F", "G", "H", "I", "J", "K", "L", "M",
                "N", "O", "P", "Q", "R", "S", "T", "U", "V", "W", "X", "Y", "Z",
                "O_acute">>

LowerChars == <<"a", "b", "c", "d", "e", "f", "g", "h", "i", "j", "k", "l", "m",
                "n", "o", "p", "q", "r", "s", "t", "u", "v", "w", "x", "y", "z",
                "o_acute">>

\* str.isspace() of one character
IsSpace(c) == c \in {" ", "\t", "\n"}

IsDigit(c) == \E k \in 1..10 : Digits[k] = c

\* the characters the class [0-9A-Za-z] matches (accented letters are not in it)
IsAsciiAlnum(c) ==
    \/ IsDigit(c)
    \/ \E k \in 1..26 : UpperChars[k] = c \/ LowerChars[k] = c

DigitVal(c) == (CHOOSE k \in 1..10 : Digits[k] = c) - 1

LowerChar(c) ==
    IF \E k \in 1..Len(UpperChars) : UpperChars[k] = c
    THEN LowerChars[CHOOSE k \in 1..Len(UpperChars) : UpperChars[k] = c]
    ELSE c

\* str.lower()
Lower(s) == [k \in 1..Len(s) |-> LowerChar(s[k])]

RECURSIVE LStrip(_)
LStrip(s) == IF s # <<>> /\ IsSpace(Head(s)) THEN LStrip(Tail(s)) ELSE s

RECURSIVE RStrip(_)
RStrip(s) ==
    IF s # <<>> /\ IsSpace(s[Len(s)]) THEN RStrip(SubSeq(s, 1, Len(s) - 1)) ELSE s

\* str.strip()
Strip(s) == RStrip(LStrip(s))

AllDigits(s) == s # <<>> /\ \A k \in 1..Len(s) : IsDigit(s[k])

\* value of a non-empty string of decimal digits
RECURSIVE DigitsToNat(_)
DigitsToNat(s) ==
    IF s = <<>> THEN 0
    ELSE 10 * DigitsToNat(SubSeq(s, 1, Len(s) - 1)) + DigitVal(s[Len(s)])

\* str(n) for n >= 0
RECURSIVE NatToStr(_)
NatToStr(n) ==
    IF n < 10 THEN <<Digits[n + 1]>>
    ELSE NatToStr(n \div 10) \o <<Digits[(n % 10) + 1]>>

\* str(n) of an int
IntToStr(n) == IF n < 0 THEN <<"-">> \o NatToStr(0 - n) ELSE NatToStr(n)

Zeros(n) == [k \in 1..n |-> "0"]

\* str.zfill(width): zeros go after a leading sign, nothing is ever cut
ZFill(s, width) ==
    IF Len(s) >= width THEN s
    ELSE IF s # <<>> /\ Head(s) \in {"+", "-"}
         THEN <<Head(s)>> \o Zeros(width - Len(s)) \o Tail(s)
         ELSE Zeros(width - Len(s)) \o s

\* position of the first "." of s, or 0
DotPos(s) ==
    IF \E k \in 1..Len(s) : s[k] = "."
    THEN CHOOSE k \in 1..Len(s) : s[k] = "." /\ \A j \in 1..(k - 1) : s[j] # "."
    ELSE 0

\* s without one leading sign
Unsigned(s) == IF s # <<>> /\ Head(s) \in {"+", "-"} THEN Tail(s) ELSE s

\* float(s) accepts s: optional sign, then digits, digits "." [digits] or
\* "." digits, with blanks allowed around it only.  (Exponents, "_", inf and
\* nan need characters outside the alphabets used here.)
FloatParses(s) ==
    LET u == Unsigned(Strip(s))
        d == DotPos(u)
        ip == IF d = 0 THEN u ELSE SubSeq(u, 1, d - 1)
        fp == IF d = 0 THEN <<>> ELSE SubSeq(u, d + 1, Len(u))
    IN  /\ ip # <<>> \/ fp # <<>>
        /\ ip = <<>> \/ AllDigits(ip)
        /\ fp = <<>> \/ AllDigits(fp)

\* int(float(s)) for a string float() accepts: truncation toward zero
IntOfFloat(s) ==
    LET t == Strip(s)
        u == Unsigned(t)
        d == DotPos(u)
        ip == IF d = 0 THEN u ELSE SubSeq(u, 1, d - 1)
        m == DigitsToNat(ip)
    IN  IF t # <<>> /\ Head(t) = "-" THEN 0 - m ELSE m

\* int(s) accepts s: optional sign and digits
IntParses(s) == AllDigits(Unsigned(Strip(s)))

ToInt(s) ==
    LET t == Strip(s)
        m == DigitsToNat(Unsigned(t))
    IN  IF t # <<>> /\ Head(t) = "-" THEN 0 - m ELSE m

\* all strings over chars of length 0..n
RECURSIVE StrsUpTo(_, _)
StrsUpTo(chars, n) ==
    IF n = 0 THEN {<<>>}
    ELSE LET shorter == StrsUpTo(chars, n - 1)
         IN  shorter \cup {Append(s, c) : s \in shorter, c \in chars}

(***************************************************************************)
(* build_layer_10_financial.build_layer: the code string of one row.       *)
(***************************************************************************)
\* the bug a developer could make: pad the text itself, keeping its zeros
CodeStrKeepText(code, pad) ==
    IF FloatParses(code) THEN ZFill(code, pad) ELSE code

\* code is str(row["code"]).strip(); lines 92-97
CodeStr(code, pad) ==
    IF FloatParses(code) THEN ZFill(IntToStr(IntOfFloat(code)), pad) ELSE code


(***************************************************************************)
(* Column labels and other fixed strings of the source.                    *)
(***************************************************************************)
sCode == <<"c", "o", "d", "e">>
sDescription == <<"d", "e", "s", "c", "r", "i", "p", "t", "i", "o", "n">>
sValue == <<"v", "a", "l", "u", "e">>
sCodigo == <<"c", "o", "d", "i", "g", "o">>
sCodigoAcute == <<"c", "o_acute", "d", "i", "g", "o">>
sDescripcion == <<"d", "e", "s", "c", "r", "i", "p", "c", "i", "o", "n">>
sValor == <<"v", "a", "l", "o", "r">>
sInputCost == <<"i", "n", "p", "u", "t", "_", "c", "o", "s", "t">>
sImporte == <<"i", "m", "p", "o", "r", "t", "e">>
sMonto == <<"m", "o", "n", "t", "o">>
sRole == <<"r", "o", "l", "e">>
sRol == <<"r", "o", "l">>
sNombreRol == <<"n", "o", "m", "b", "r", "e", " ", "r", "o", "l">>
sId == <<"i", "d">>
sName == <<"n", "a", "m", "e">>
sCost == <<"c", "o", "s", "t">>
sNombre == <<"n", "o", "m", "b", "r", "e">>
sEmpleado == <<"e", "m", "p", "l", "e", "a", "d", "o">>
sCosto == <<"c", "o", "s", "t", "o">>
sSalario == <<"s", "a", "l", "a", "r", "i", "o">>
sCargo == <<"c", "a", "r", "g", "o">>
sRoleKey == <<"_", "r", "o", "l", "e", "_", "k", "e", "y">>
sCodeKey == <<"_", "c", "o", "d", "e", "_", "k", "e", "y">>
\* the empty str
sEmpty == <<>>
\* Python's None where a str is optional
sNone == <<"<None>">>

(***************************************************************************)
(* DataFrame primitives.                                                   *)
(***************************************************************************)
\* the positions of label in columns, ascending
RECURSIVE Positions(_, _)
Positions(columns, label) ==
    IF columns = <<>> THEN <<>>
    ELSE LET front == Positions(SubSeq(columns, 1, Len(columns) - 1), label)
         IN  IF columns[Len(columns)] = label
             THEN Append(front, Len(columns)) ELSE front

HasColumn(columns, label) == \E k \in 1..Len(columns) : columns[k] = label

RECURSIVE JoinLines(_)
JoinLines(cells) ==
    IF cells = <<>> THEN <<>>
    ELSE IF Len(cells) = 1 THEN cells[1]
    ELSE cells[1] \o <<"\n">> \o JoinLines(Tail(cells))

\* A label that occurs more than once selects a Series, not a cell.  str() of
\* a Series is its printed form: text that float() rejects and strip() leaves.
SeriesOf(cells) == <<"<Series>">> \o JoinLines(cells)

IsSeries(v) == v # <<>> /\ v[1] = "<Series>"

\* row[label] of a row of a DataFrame with these columns (label is present)
RowGet(columns, row, label) ==
    LET at == Positions(columns, label)
    IN  IF Len(at) = 1 THEN row[at[1]]
        ELSE SeriesOf([k \in 1..Len(at) |-> row[at[k]]])

\* df[labels]: every column carrying each label, in the order of labels
RECURSIVE SelectPositions(_, _)
SelectPositions(columns, labels) ==
    IF labels = <<>> THEN <<>>
    ELSE Positions(columns, Head(labels)) \o SelectPositions(columns, Tail(labels))

SelectColumns(df, labels) ==
    LET at == SelectPositions(df.columns, labels)
    IN  [columns |-> [k \in 1..Len(at) |-> df.columns[at[k]]],
         rows |-> [r \in 1..Len(df.rows) |->
                      [k \in 1..Len(at) |-> df.rows[r][at[k]]]]]

\* the members of required that are not in columns, in the order of required
RECURSIVE MissingOf(_, _)
MissingOf(required, columns) ==
    IF required = <<>> THEN <<>>
    ELSE IF HasColumn(columns, Head(required))
         THEN MissingOf(Tail(required), columns)
         ELSE <<Head(required)>> \o MissingOf(Tail(required), columns)

NoError == [kind |-> "none", who |-> "", missing |-> <<>>, present |-> <<>>]

RaisedError(kind, who, missing, present) ==
    [kind |-> kind, who |-> who, missing |-> missing, present |-> present]

EmptyFrame == [columns |-> <<>>, rows |-> <<>>]

(***************************************************************************)
(* build_layer_10_financial.normalize_columns                              *)
(***************************************************************************)
FinRequired == <<sCode, sDescription, sValue>>

\* the aliases dict: key -> official name
FinAliasKeys ==
    {sCodigo, sCode, sDescripcion, sDescription, sValor, sValue, sInputCost,
     sImporte, sMonto}

FinAlias(key) ==
    IF key \in {sCodigo, sCode} THEN sCode
    ELSE IF key \in {sDescripcion, sDescription} THEN sDescription
    ELSE sValue

\* newcols[c], or c when c has no alias
FinRename(c) ==
    LET key == Strip(Lower(c))
    IN  IF key \in FinAliasKeys THEN FinAlias(key) ELSE c

FinRenamed(df) ==
    [columns |-> [k \in 1..Len(df.columns) |-> FinRename(df.columns[k])],
     rows |-> df.rows]

\* [err, df]: the error raised, or the frame returned
NormalizeColumns(df) ==
    LET renamed == FinRenamed(df)
        missing == MissingOf(FinRequired, renamed.columns)
    IN  IF missing # <<>>
        THEN [err |-> RaisedError("SchemaError", "financial", missing,
                                  renamed.columns),
              df |-> EmptyFrame]
        ELSE [err |-> NoError, df |-> SelectColumns(renamed, FinRequired)]

(***************************************************************************)
(* build_layer_10_financial.build_layer                                    *)
(***************************************************************************)
LayerRow(parent, symbol, name, input_cost) ==
    [parent |-> parent, symbol |-> symbol, name |-> name,
     input_cost |-> input_cost]

\* a builder that forgets the include_parent_row switch
FinParentRowsAlways(parent, include_parent_row, parent_name) ==
    <<LayerRow(parent, parent,
               IF parent_name # sNone THEN parent_name ELSE sEmpty, sEmpty)>>

\* lines 79-87: the rows before the loop
FinParentRows(parent, include_parent_row, parent_name) ==
    IF include_parent_row
    THEN <<LayerRow(parent, parent,
                    IF parent_name # sNone THEN parent_name ELSE sEmpty,
                    sEmpty)>>
    ELSE <<>>

\* line 98
FinSymbol(parent, code_str) == parent \o <<".">> \o code_str

\* a builder that copies the description without trimming it
FinChildRowRawName(columns, row, parent, pad) ==
    LayerRow(parent,
             FinSymbol(parent, CodeStr(Strip(RowGet(columns, row, sCode)), pad)),
             RowGet(columns, row, sDescription),
             RowGet(columns, row, sValue))

\* lines 89-106: the row appended for one input row
FinChildRow(columns, row, parent, pad) ==
    LayerRow(parent,
             FinSymbol(parent, CodeStr(Strip(RowGet(columns, row, sCode)), pad)),
             Strip(RowGet(columns, row, sDescription)),
             RowGet(columns, row, sValue))


(***************************************************************************)
(* build_layer_20_personal: norm_cols, load_roles, load_emps               *)
(***************************************************************************)
\* re.sub(r'\s+', ' ', s): every run of blanks becomes one space
RECURSIVE CollapseBlanks(_)
CollapseBlanks(s) ==
    IF s = <<>> THEN <<>>
    ELSE IF IsSpace(Head(s))
         THEN <<" ">> \o CollapseBlanks(LStrip(s))
         ELSE <<Head(s)>> \o CollapseBlanks(Tail(s))

\* norm_cols, line 29
NormCols(columns) ==
    [k \in 1..Len(columns) |-> CollapseBlanks(Lower(Strip(columns[k])))]

\* str.replace(r"[^0-9A-Za-z]", "", regex=True)
AlnumOnly(s) == SelectSeq(s, IsAsciiAlnum)

\* the rename of load_roles, lines 35-40
RolesRename(c) ==
    IF c \in {sCodigo, sCodigoAcute} THEN sCode
    ELSE IF c \in {sRol, sNombreRol} THEN sRole
    ELSE c

RolesRequired == <<sCode, sRole>>

\* a check that collects every absent column before it raises
FirstMissingCollectsAll(required, columns) == MissingOf(required, columns)

\* the loops of lines 41-43 and 70-72 raise at the first column that is absent
FirstMissing(required, columns) ==
    LET missing == MissingOf(required, columns)
    IN  IF missing = <<>> THEN <<>> ELSE <<Head(missing)>>

\* load_roles after read_any, lines 33-48: [err, df]
LoadRoles(raw) ==
    LET columns == [k \in 1..Len(raw.columns) |->
                       RolesRename(NormCols(raw.columns)[k])]
        missing == FirstMissing(RolesRequired, columns)
        CodeOf(row) == Strip(RowGet(columns, row, sCode))
        RoleOf(row) == Strip(RowGet(columns, row, sRole))
    IN  IF missing # <<>>
        THEN [err |-> RaisedError("SchemaError", "roles", missing, columns),
              df |-> EmptyFrame]
        ELSE IF Len(Positions(columns, sCode)) > 1
                \/ Len(Positions(columns, sRole)) > 1
        \* df["code"] is then a DataFrame, which has no .str
        THEN [err |-> RaisedError("AttributeError", "roles", <<>>, columns),
              df |-> EmptyFrame]
        ELSE [err |-> NoError,
              df |-> [columns |-> <<sCode, sRole, sRoleKey, sCodeKey>>,
                      rows |-> [r \in 1..Len(raw.rows) |->
                                  <<CodeOf(raw.rows[r]),
                                    RoleOf(raw.rows[r]),
                                    Lower(RoleOf(raw.rows[r])),
                                    AlnumOnly(CodeOf(raw.rows[r]))>>]]]

\* the renames of load_emps, lines 53-68 (lines 61-64 rename a label to itself)
EmpsRename1(c) ==
    IF c \in {sNombre, sEmpleado} THEN sName
    ELSE IF c \in {sCosto, sValor, sSalario} THEN sCost
    ELSE c

EmpsColumns(raw) ==
    LET first == [k \in 1..Len(raw.columns) |->
                     EmpsRename1(NormCols(raw.columns)[k])]
    IN  IF ~HasColumn(first, sRole) /\ HasColumn(first, sRol)
        THEN [k \in 1..Len(first) |-> IF first[k] = sRol THEN sRole ELSE first[k]]
        ELSE first

EmpsRequired == <<sId, sName, sCost>>

\* load_emps after read_any, lines 52-81: [err, df]
LoadEmps(raw) ==
    LET columns == EmpsColumns(raw)
        missing == FirstMissing(EmpsRequired, columns)
        RoleKeyOf(row) ==
            IF HasColumn(columns, sRole)
            THEN Lower(Strip(RowGet(columns, row, sRole))) ELSE sEmpty
        CodeKeyOf(row) ==
            IF HasColumn(columns, sCargo)
            THEN AlnumOnly(Strip(RowGet(columns, row, sCargo))) ELSE sEmpty
    IN  IF missing # <<>>
        THEN [err |-> RaisedError("SchemaError", "empleados", missing, columns),
              df |-> EmptyFrame]
        ELSE IF Len(Positions(columns, sRole)) > 1
                \/ Len(Positions(columns, sCargo)) > 1
        THEN [err |-> RaisedError("AttributeError", "empleados", <<>>, columns),
              df |-> EmptyFrame]
        ELSE [err |-> NoError,
              df |-> [columns |-> columns \o <<sRoleKey, sCodeKey>>,
                      rows |-> [r \in 1..Len(raw.rows) |->
                                  raw.rows[r]
                                  \o <<RoleKeyOf(raw.rows[r]),
                                       CodeKeyOf(raw.rows[r])>>]]]

(***************************************************************************)
(* build_layer_20_personal.build_layer                                     *)
(***************************************************************************)
\* a mapping strategy that asks every employee for a code
EmpHasCodeAll(emps) ==
    \A r \in 1..Len(emps.rows) :
        RowGet(emps.columns, emps.rows[r], sCodeKey) # sEmpty

\* line 94
EmpHasCode(emps) ==
    \E r \in 1..Len(emps.rows) :
        RowGet(emps.columns, emps.rows[r], sCodeKey) # sEmpty

\* characters in code point order
CodePointOrder ==
    <<"\t", "\n", " ", "+", "-", ".">> \o Digits
    \o SubSeq(UpperChars, 1, 26) \o <<"_">> \o SubSeq(LowerChars, 1, 26)
    \o <<"O_acute", "o_acute">>

CharOrd(c) == CHOOSE k \in 1..Len(CodePointOrder) : CodePointOrder[k] = c

\* a <= b of two str
RECURSIVE StrLeq(_, _)
StrLeq(a, b) ==
    IF a = <<>> THEN TRUE
    ELSE IF b = <<>> THEN FALSE
    ELSE IF Head(a) = Head(b) THEN StrLeq(Tail(a), Tail(b))
    ELSE CharOrd(Head(a)) < CharOrd(Head(b))

\* a sort_key that turns only unsigned digit strings into numbers
SortKeyIsIntDigitsOnly(x) == AllDigits(x)

\* sort_key, lines 97-101, gives an int exactly when int(str(x)) succeeds
SortKeyIsInt(x) == IntParses(x)

\* key(a) <= key(b) for two keys of one type
SortKeyLeq(a, b) ==
    IF SortKeyIsInt(a) THEN ToInt(a) <= ToInt(b) ELSE StrLeq(a, b)

\* an int key and a str key cannot be compared: sort_values raises TypeError
SortKeysMixed(codes) ==
    \E i, j \in 1..Len(codes) : SortKeyIsInt(codes[i]) /\ ~SortKeyIsInt(codes[j])

Perms(n) ==
    {f \in [1..n -> 1..n] : \A i, j \in 1..n : f[i] = f[j] => i = j}

\* The orders sort_values may return, line 102: ascending by key.  The default
\* sort is not stable, so rows with equal keys may come out in any order.
SortedOrders(codes) ==
    {f \in Perms(Len(codes)) :
        \A i, j \in 1..Len(codes) :
            i < j => SortKeyLeq(codes[f[i]], codes[f[j]])}

RoleCodes(roles) ==
    [r \in 1..Len(roles.rows) |-> RowGet(roles.columns, roles.rows[r], sCode)]

\* a header symbol that leaves the role's code out
RoleSymbolNoCode(parent_code, c) == parent_code

\* line 110
RoleSymbol(parent_code, c) == parent_code \o <<".">> \o c

\* line 111
RoleHeader(parent_code, c, role_name) ==
    LayerRow(parent_code, RoleSymbol(parent_code, c), role_name, sEmpty)

\* lines 119-124
EmpRow(columns, e, role_symbol) ==
    LayerRow(role_symbol,
             role_symbol \o <<".">> \o Strip(RowGet(columns, e, sId)),
             Strip(RowGet(columns, e, sName)),
             RowGet(columns, e, sCost))

\* a selection that always matches by role name
JoinBranchAlwaysName(has_code) == "name"

\* which branch of lines 113-116 is taken
JoinBranch(has_code) == IF has_code THEN "code" ELSE "name"

\* a selection that returns the matching rows last to first
RECURSIVE MatchedEmpsReversed(_, _, _, _, _)
MatchedEmpsReversed(columns, rows, has_code, code_key, role_key) ==
    IF rows = <<>> THEN <<>>
    ELSE LET e == Head(rows)
             hit == IF has_code
                    THEN RowGet(columns, e, sCodeKey) = code_key
                    ELSE RowGet(columns, e, sRoleKey) = role_key
             rest == MatchedEmpsReversed(columns, Tail(rows), has_code,
                                         code_key, role_key)
         IN  IF hit THEN rest \o <<e>> ELSE rest

\* lines 113-116: the rows of emps selected for one role, in the order of emps
RECURSIVE MatchedEmps(_, _, _, _, _)
MatchedEmps(columns, rows, has_code, code_key, role_key) ==
    IF rows = <<>> THEN <<>>
    ELSE LET e == Head(rows)
             hit == IF JoinBranch(has_code) = "code"
                    THEN RowGet(columns, e, sCodeKey) = code_key
                    ELSE RowGet(columns, e, sRoleKey) = role_key
             rest == MatchedEmps(columns, Tail(rows), has_code, code_key,
                                 role_key)
         IN  IF hit THEN <<e>> \o rest ELSE rest

\* a loop that writes a role's header only when the role has employees
RoleBlockSkipEmpty(roles, emps, r, has_code, parent_code) ==
    LET row == roles.rows[r]
        c == RowGet(roles.columns, row, sCode)
        role_symbol == RoleSymbol(parent_code, c)
        matched == MatchedEmps(emps.columns, emps.rows, has_code,
                               RowGet(roles.columns, row, sCodeKey),
                               RowGet(roles.columns, row, sRoleKey))
    IN  IF matched = <<>> THEN <<>>
        ELSE <<RoleHeader(parent_code, c, RowGet(roles.columns, row, sRole))>>
             \o [k \in 1..Len(matched) |->
                    EmpRow(emps.columns, matched[k], role_symbol)]

\* lines 105-124: everything one role appends to out
RoleBlock(roles, emps, r, has_code, parent_code) ==
    LET row == roles.rows[r]
        c == RowGet(roles.columns, row, sCode)
        role_symbol == RoleSymbol(parent_code, c)
        matched == MatchedEmps(emps.columns, emps.rows, has_code,
                               RowGet(roles.columns, row, sCodeKey),
                               RowGet(roles.columns, row, sRoleKey))
    IN  <<RoleHeader(parent_code, c, RowGet(roles.columns, row, sRole))>>
        \o [k \in 1..Len(matched) |-> EmpRow(emps.columns, matched[k], role_symbol)]

\* mcp_http.py line 103: parent_code="20"
ParentCode == <<"2", "0">>

(***************************************************************************)
(* State of one tool invocation of mcp_http.py.                            *)
(***************************************************************************)
VARIABLES
    tool,          \* which tool runs: "financial", "personal", or "code_str"
    pc,            \* position in the tool
    mod_ok,        \* the tool's script module was imported (MOD_* is not None)
    file1,         \* input_path / roles_path: [ext, columns, rows]
    file2,         \* empleados_path: [ext, columns, rows]
    params,        \* [parent, pad, include_parent_row, parent_name]
    df,            \* df_raw, then df_norm / roles
    df2,           \* emps
    out,           \* out_rows / out
    idx,           \* rows of the loop already consumed
    roles_sorted,  \* the order in which roles are walked (row numbers of df)
    emp_has_code,  \* build_layer's emp_has_code
    branch_log,    \* which branch of "if emp_has_code" each role iteration took
    code,          \* the loop's code
    code_str,      \* the loop's code_str
    err,           \* the exception that left the tool, if any
    artifact,      \* what the ExcelWriter wrote: [written, rows]
    trace          \* the pipeline steps entered so far, in order

vars == <<tool, pc, mod_ok, file1, file2, params, df, df2, out, idx,
          roles_sorted, emp_has_code, branch_log, code, code_str, err,
          artifact, trace>>

NoFile == [ext |-> "", columns |-> <<>>, rows |-> <<>>]
NoArtifact == [written |-> FALSE, rows |-> <<>>]
NoParams ==
    [parent |-> <<>>, pad |-> 0, include_parent_row |-> FALSE,
     parent_name |-> sNone]

\* the extensions read_table accepts (lines 34, 36)
ExcelExt == {".xls", ".xlsx", ".xlsm", ".xlsb"}
TextExt == {".csv", ".txt"}

\* all sequences over S of length 0..n
RECURSIVE SeqsUpTo(_, _)
SeqsUpTo(S, n) ==
    IF n = 0 THEN {<<>>}
    ELSE LET shorter == SeqsUpTo(S, n - 1)
         IN  shorter \cup {Append(q, x) : q \in shorter, x \in S}

(***************************************************************************)
(* Inputs of the financial tool.                                           *)
(***************************************************************************)
FinCodeCells ==
    {<<"7">>, <<"0", "7">>, <<"7", ".", "9">>, <<"1", "2">>, <<"A">>,
     <<" ", "A">>}

FinRestCells ==
    {<<<<" ", "d", " ">>, <<"1", "0", "0">>>>, <<<<"e">>, <<"x">>>>}

\* rows of a file whose header is code, description, value
FinRowPool == {<<c, r[1], r[2]>> : c \in FinCodeCells, r \in FinRestCells}

FinParents == {<<"1", "0">>}
FinPads == {1, 2}
FinParentNames == {sNone, <<"P">>}

FinParams ==
    [parent : FinParents, pad : FinPads, include_parent_row : BOOLEAN,
     parent_name : FinParentNames]

InitCommon ==
    /\ pc = "start"
    /\ df = EmptyFrame
    /\ df2 = EmptyFrame
    /\ out = <<>>
    /\ idx = 0
    /\ roles_sorted = <<>>
    /\ emp_has_code = FALSE
    /\ branch_log = <<>>
    /\ code = <<>>
    /\ code_str = <<>>
    /\ err = NoError
    /\ artifact = NoArtifact
    /\ trace = <<>>

InitFinTables ==
    /\ tool = "financial"
    /\ mod_ok = TRUE
    /\ file1 \in [ext : {".csv"}, columns : {FinRequired},
                  rows : SeqsUpTo(FinRowPool, MaxRows)]
    /\ file2 = NoFile
    /\ params \in FinParams
    /\ InitCommon

(***************************************************************************)
(* mcp_http.build_layer_10_financial, step by step.                        *)
(***************************************************************************)
Raise(e) ==
    /\ err' = e
    /\ pc' = "raised"

\* lines 73-75 and read_table
FinReadTable ==
    /\ tool = "financial"
    /\ pc = "start"
    /\ IF ~mod_ok
       THEN /\ Raise(RaisedError("RuntimeError", "", <<>>, <<>>))
            /\ UNCHANGED <<df, trace>>
       ELSE IF file1.ext \notin ExcelExt \cup TextExt
       THEN /\ Raise(RaisedError("UnsupportedFormat", "", <<>>, <<>>))
            /\ trace' = Append(trace, "ingest")
            /\ UNCHANGED df
       ELSE /\ df' = [columns |-> file1.columns, rows |-> file1.rows]
            /\ pc' = "normalize"
            /\ trace' = Append(trace, "ingest")
            /\ UNCHANGED err
    /\ UNCHANGED <<tool, mod_ok, file1, file2, params, df2, out, idx,
                   roles_sorted, emp_has_code, branch_log, code, code_str,
                   artifact>>

\* line 76
FinNormalize ==
    /\ tool = "financial"
    /\ pc = "normalize"
    /\ LET res == NormalizeColumns(df)
       IN  IF res.err # NoError
           THEN /\ Raise(res.err)
                /\ UNCHANGED df
           ELSE /\ df' = res.df
                /\ pc' = "build"
                /\ UNCHANGED err
    /\ trace' = Append(trace, "normalize")
    /\ UNCHANGED <<tool, mod_ok, file1, file2, params, df2, out, idx,
                   roles_sorted, emp_has_code, branch_log, code, code_str,
                   artifact>>

\* line 77, build_layer lines 78-87
FinBuildStart ==
    /\ tool = "financial"
    /\ pc = "build"
    /\ out' = FinParentRows(params.parent, params.include_parent_row,
                            params.parent_name)
    /\ idx' = 0
    /\ pc' = "build_loop"
    /\ trace' = Append(trace, "build")
    /\ UNCHANGED <<tool, mod_ok, file1, file2, params, df, df2, roles_sorted,
                   emp_has_code, branch_log, code, code_str, err, artifact>>

\* build_layer lines 89-106: one turn of the loop
FinBuildRow ==
    /\ tool = "financial"
    /\ pc = "build_loop"
    /\ idx < Len(df.rows)
    /\ LET row == df.rows[idx + 1]
           c == Strip(RowGet(df.columns, row, sCode))
       IN  /\ code' = c
           /\ code_str' = CodeStr(c, params.pad)
           /\ out' = Append(out, FinChildRow(df.columns, row, params.parent,
                                             params.pad))
    /\ idx' = idx + 1
    /\ UNCHANGED <<tool, pc, mod_ok, file1, file2, params, df, df2,
                   roles_sorted, emp_has_code, branch_log, err, artifact,
                   trace>>

\* build_layer line 107
FinBuildReturn ==
    /\ tool = "financial"
    /\ pc = "build_loop"
    /\ idx = Len(df.rows)
    /\ pc' = "emit"
    /\ UNCHANGED <<tool, mod_ok, file1, file2, params, df, df2, out, idx,
                   roles_sorted, emp_has_code, branch_log, code, code_str, err,
                   artifact, trace>>

\* The sink is openpyxl.  A cell that holds a Series is not a value a sheet
\* can store; whether the writer rejects it is the library's business, so both
\* outcomes are kept.
EmitOutcomes(rows) ==
    IF \E k \in 1..Len(rows) : IsSeries(rows[k].input_cost)
    THEN {"written", "raised"} ELSE {"written"}

\* lines 84-86
FinEmit ==
    /\ tool = "financial"
    /\ pc = "emit"
    /\ \E outcome \in EmitOutcomes(out) :
          IF outcome = "written"
          THEN /\ artifact' = [written |-> TRUE, rows |-> out]
               /\ pc' = "done"
               /\ UNCHANGED err
          ELSE /\ Raise(RaisedError("EmitError", "", <<>>, <<>>))
               /\ UNCHANGED artifact
    /\ trace' = Append(trace, "emit")
    /\ UNCHANGED <<tool, mod_ok, file1, file2, params, df, df2, out, idx,
                   roles_sorted, emp_has_code, branch_log, code, code_str>>

NextFin ==
    \/ FinReadTable
    \/ FinNormalize
    \/ FinBuildStart
    \/ FinBuildRow
    \/ FinBuildReturn
    \/ FinEmit

SpecFin == InitFinTables /\ [][NextFin]_vars


(***************************************************************************)
(* Inputs of the personnel tool.                                           *)
(***************************************************************************)
\* rows of a roles file whose header is code, role
RoleRowPool ==
    {<<<<"0", "1">>, <<"G", "e", "r">>>>,
     <<<<"2">>, <<"G", "E", "R">>>>,
     <<<<"-", "1">>, <<"D", "e", "v">>>>,
     <<<<"-", "2">>, <<"O", "p", "s">>>>,
     <<<<"-">>, <<"T", "m", "p">>>>,
     <<<<" ", "1">>, <<"A", "d", "m">>>>,
     <<<<"A">>, <<"G", "e", "r">>>>,
     <<<<"A", ".", "E">>, <<"S", "u", "b">>>>}

\* rows of an employees file whose header is id, name, cost, role, cargo
EmpRowPool ==
    {<<<<"E">>, <<"A", "n">>, <<"5", "0">>, <<"G", "e", "r">>, <<"0", "1">>>>,
     <<<<" ", "E">>, <<" ", "B", "o">>, <<"x">>, <<" ", "g", "e", "r">>, <<"9">>>>,
     <<<<"F">>, <<"C", "y">>, <<"7">>, <<"D", "e", "v">>, <<"1">>>>,
     <<<<"G">>, <<"D", "i">>, <<"9">>, <<"X">>, <<" ">>>>}

EmpHeader == <<sId, sName, sCost, sRole, sCargo>>

\* the same file without its last column
WithoutCargo(file) ==
    [ext |-> file.ext,
     columns |-> SubSeq(file.columns, 1, Len(file.columns) - 1),
     rows |-> [r \in 1..Len(file.rows) |->
                  SubSeq(file.rows[r], 1, Len(file.rows[r]) - 1)]]

EmpFilesWithCargo ==
    [ext : {".csv"}, columns : {EmpHeader}, rows : SeqsUpTo(EmpRowPool, MaxEmps)]

InitPersTables ==
    /\ tool = "personal"
    /\ mod_ok = TRUE
    /\ file1 \in [ext : {".csv"}, columns : {RolesRequired},
                  rows : SeqsUpTo(RoleRowPool, MaxRoles)]
    /\ file2 \in EmpFilesWithCargo \cup {WithoutCargo(f) : f \in EmpFilesWithCargo}
    /\ params = NoParams
    /\ InitCommon

(***************************************************************************)
(* mcp_http.build_layer_20_personal, step by step.                         *)
(***************************************************************************)
\* lines 99-101, load_roles line 32: read_any reads every extension
PersReadRoles ==
    /\ tool = "personal"
    /\ pc = "start"
    /\ IF ~mod_ok
       THEN /\ Raise(RaisedError("RuntimeError", "", <<>>, <<>>))
            /\ UNCHANGED <<df, trace>>
       ELSE /\ df' = [columns |-> file1.columns, rows |-> file1.rows]
            /\ pc' = "norm_roles"
            /\ trace' = Append(trace, "ingest")
            /\ UNCHANGED err
    /\ UNCHANGED <<tool, mod_ok, file1, file2, params, df2, out, idx,
                   roles_sorted, emp_has_code, branch_log, code, code_str,
                   artifact>>

\* load_roles lines 33-48
PersNormRoles ==
    /\ tool = "personal"
    /\ pc = "norm_roles"
    /\ LET res == LoadRoles(df)
       IN  IF res.err # NoError
           THEN /\ Raise(res.err)
                /\ UNCHANGED df
           ELSE /\ df' = res.df
                /\ pc' = "read_emps"
                /\ UNCHANGED err
    /\ trace' = Append(trace, "normalize")
    /\ UNCHANGED <<tool, mod_ok, file1, file2, params, df2, out, idx,
                   roles_sorted, emp_has_code, branch_log, code, code_str,
                   artifact>>

\* line 102, load_emps line 51
PersReadEmps ==
    /\ tool = "personal"
    /\ pc = "read_emps"
    /\ df2' = [columns |-> file2.columns, rows |-> file2.rows]
    /\ pc' = "norm_emps"
    /\ trace' = Append(trace, "ingest")
    /\ UNCHANGED <<tool, mod_ok, file1, file2, params, df, out, idx,
                   roles_sorted, emp_has_code, branch_log, code, code_str, err,
                   artifact>>

\* a loader that reports the schema error and lets the tool go on
PersNormEmpsGoesOn ==
    /\ tool = "personal"
    /\ pc = "norm_emps"
    /\ LET res == LoadEmps(df2)
       IN  /\ err' = res.err
           /\ df2' = res.df
           /\ pc' = "build"
    /\ trace' = Append(trace, "normalize")
    /\ UNCHANGED <<tool, mod_ok, file1, file2, params, df, out, idx,
                   roles_sorted, emp_has_code, branch_log, code, code_str,
                   artifact>>

\* load_emps lines 52-81
PersNormEmps ==
    /\ tool = "personal"
    /\ pc = "norm_emps"
    /\ LET res == LoadEmps(df2)
       IN  IF res.err # NoError
           THEN /\ Raise(res.err)
                /\ UNCHANGED df2
           ELSE /\ df2' = res.df
                /\ pc' = "build"
                /\ UNCHANGED err
    /\ trace' = Append(trace, "normalize")
    /\ UNCHANGED <<tool, mod_ok, file1, file2, params, df, out, idx,
                   roles_sorted, emp_has_code, branch_log, code, code_str,
                   artifact>>

\* line 103, build_layer lines 91-102
PersBuildStart ==
    /\ tool = "personal"
    /\ pc = "build"
    /\ out' = <<>>
    /\ idx' = 0
    /\ emp_has_code' = EmpHasCode(df2)
    /\ IF SortKeysMixed(RoleCodes(df))
       THEN /\ Raise(RaisedError("TypeError", "", <<>>, <<>>))
            /\ UNCHANGED roles_sorted
       ELSE /\ roles_sorted' \in SortedOrders(RoleCodes(df))
            /\ pc' = "build_loop"
            /\ UNCHANGED err
    /\ trace' = Append(trace, "build")
    /\ UNCHANGED <<tool, mod_ok, file1, file2, params, df, df2, branch_log,
                   code, code_str, artifact>>

\* build_layer lines 104-124: one turn of the loop over roles_sorted
PersBuildRole ==
    /\ tool = "personal"
    /\ pc = "build_loop"
    /\ idx < Len(roles_sorted)
    /\ out' = out \o RoleBlock(df, df2, roles_sorted[idx + 1], emp_has_code,
                               ParentCode)
    /\ branch_log' = Append(branch_log, JoinBranch(emp_has_code))
    /\ code' = RowGet(df.columns, df.rows[roles_sorted[idx + 1]], sCode)
    /\ idx' = idx + 1
    /\ UNCHANGED <<tool, pc, mod_ok, file1, file2, params, df, df2,
                   roles_sorted, emp_has_code, code_str, err, artifact, trace>>

\* build_layer line 126
PersBuildReturn ==
    /\ tool = "personal"
    /\ pc = "build_loop"
    /\ idx = Len(roles_sorted)
    /\ pc' = "emit"
    /\ UNCHANGED <<tool, mod_ok, file1, file2, params, df, df2, out, idx,
                   roles_sorted, emp_has_code, branch_log, code, code_str, err,
                   artifact, trace>>

\* lines 104-106
PersEmit ==
    /\ tool = "personal"
    /\ pc = "emit"
    /\ \E outcome \in EmitOutcomes(out) :
          IF outcome = "written"
          THEN /\ artifact' = [written |-> TRUE, rows |-> out]
               /\ pc' = "done"
               /\ UNCHANGED err
          ELSE /\ Raise(RaisedError("EmitError", "", <<>>, <<>>))
               /\ UNCHANGED artifact
    /\ trace' = Append(trace, "emit")
    /\ UNCHANGED <<tool, mod_ok, file1, file2, params, df, df2, out, idx,
                   roles_sorted, emp_has_code, branch_log, code, code_str>>

NextPers ==
    \/ PersReadRoles
    \/ PersNormRoles
    \/ PersReadEmps
    \/ PersNormEmps
    \/ PersBuildStart
    \/ PersBuildRole
    \/ PersBuildReturn
    \/ PersEmit

SpecPers == InitPersTables /\ [][NextPers]_vars

InitBuild == InitFinTables \/ InitPersTables

NextBuild == NextFin \/ NextPers

SpecBuild == InitBuild /\ [][NextBuild]_vars


(***************************************************************************)
(* Inputs whose headers vary: any choice of distinct headers of the pool,  *)
(* in any order, over one row of cells.                                    *)
(***************************************************************************)
hCodigoAcute == <<"C", "o_acute", "d", "i", "g", "o">>
hDescripcionAcute == <<"D", "e", "s", "c", "r", "i", "p", "c", "i", "o_acute", "n">>
hImporte == <<"I", "m", "p", "o", "r", "t", "e">>
hCodigoBlanks == <<" ", "C", "O", "D", "I", "G", "O", " ">>
hNotas == <<"N", "o", "t", "a", "s">>
hRol == <<"R", "o", "l">>
hNombreRol == <<"N", "o", "m", "b", "r", "e", " ", " ", "R", "o", "l">>
hId == <<"I", "D">>
hNombre == <<"N", "o", "m", "b", "r", "e">>
hSalario == <<"S", "a", "l", "a", "r", "i", "o">>

FinHeaderPool ==
    {sCode, sDescription, sValue, hCodigoAcute, hDescripcionAcute, hImporte,
     sValor, hCodigoBlanks, hNotas}

RolesHeaderPool == {sCode, hCodigoAcute, hRol, hNombreRol, sRole, hNotas}

EmpsHeaderPool == {hId, sName, hNombre, sCost, hSalario, sRol, sRole, sCargo}

\* read_csv and read_excel never return two equal labels
Headers(pool) ==
    {q \in SeqsUpTo(pool, MaxCols) :
        \A i, j \in 1..Len(q) : q[i] = q[j] => i = j}

\* one row: the cell of column k is the digit k
FileOf(ext, columns) ==
    [ext |-> ext, columns |-> columns,
     rows |-> <<[k \in 1..Len(columns) |-> <<Digits[k + 1]>>]>>]

FixedFinParams ==
    [parent |-> <<"1", "0">>, pad |-> 2, include_parent_row |-> TRUE,
     parent_name |-> <<"P">>]

FixedRolesFile == FileOf(".csv", RolesRequired)
FixedEmpsFile == FileOf(".csv", EmpHeader)

InitHeaders ==
    /\ InitCommon
    /\ \/ /\ tool = "financial"
          /\ mod_ok = TRUE
          /\ file1 \in {FileOf(".csv", h) : h \in Headers(FinHeaderPool)}
          /\ file2 = NoFile
          /\ params = FixedFinParams
       \/ /\ tool = "financial"
          /\ \/ mod_ok = FALSE /\ file1 = FileOf(".xlsx", FinRequired)
             \/ mod_ok = TRUE /\ file1 = FileOf(".pdf", FinRequired)
          /\ file2 = NoFile
          /\ params = FixedFinParams
       \/ /\ tool = "personal"
          /\ mod_ok = TRUE
          /\ file1 \in {FileOf(".csv", h) : h \in Headers(RolesHeaderPool)}
          /\ file2 = FixedEmpsFile
          /\ params = NoParams
       \/ /\ tool = "personal"
          /\ mod_ok = TRUE
          /\ file1 = FixedRolesFile
          /\ file2 \in {FileOf(".csv", h) : h \in Headers(EmpsHeaderPool)}
          /\ params = NoParams
       \/ /\ tool = "personal"
          /\ mod_ok = FALSE
          /\ file1 = FixedRolesFile
          /\ file2 = FixedEmpsFile
          /\ params = NoParams

Init == InitHeaders

Next == NextFin \/ NextPers

Spec == Init /\ [][Next]_vars

(***************************************************************************)
(* The padding rule on its own: CodeStr applied to one cell.               *)
(***************************************************************************)
PadChars == {"0", "7", ".", "-", " ", "A"}

InitPad ==
    /\ tool = "code_str"
    /\ pc = "call"
    /\ mod_ok = TRUE
    /\ file1 = NoFile
    /\ file2 = NoFile
    /\ params \in [parent : {<<>>}, pad : 0..MaxPad,
                   include_parent_row : {FALSE}, parent_name : {sNone}]
    /\ df = EmptyFrame
    /\ df2 = EmptyFrame
    /\ out = <<>>
    /\ idx = 0
    /\ roles_sorted = <<>>
    /\ emp_has_code = FALSE
    /\ branch_log = <<>>
    /\ code \in StrsUpTo(PadChars, MaxCodeLen)
    /\ code_str = <<>>
    /\ err = NoError
    /\ artifact = NoArtifact
    /\ trace = <<>>

\* build_layer_10_financial.build_layer lines 90-97 on the cell held in code
PadApply ==
    /\ tool = "code_str"
    /\ pc = "call"
    /\ code' = Strip(code)
    /\ code_str' = CodeStr(Strip(code), params.pad)
    /\ pc' = "return"
    /\ UNCHANGED <<tool, mod_ok, file1, file2, params, df, df2, out, idx,
                   roles_sorted, emp_has_code, branch_log, err, artifact,
                   trace>>

SpecPad == InitPad /\ [][PadApply]_vars


(***************************************************************************)
(* Properties.                                                             *)
(***************************************************************************)
Built == pc \in {"emit", "done"}

Max(a, b) == IF a >= b THEN a ELSE b

Symbols(rows) == [k \in 1..Len(rows) |-> rows[k].symbol]

Distinct(q) == \A i, j \in 1..Len(q) : q[i] = q[j] => i = j

\* C1: once the financial build_layer has returned, out has one row per row of
\* the normalized input, plus one exactly when include_parent_row is set.
C1_RowCount ==
    (tool = "financial" /\ Built) =>
        Len(out) = Len(df.rows) + (IF params.include_parent_row THEN 1 ELSE 0)

C1_Witness ==
    /\ tool = "financial"
    /\ pc = "done"
    /\ Len(df.rows) = 2
    /\ \/ params.include_parent_row /\ Len(artifact.rows) = 3
       \/ ~params.include_parent_row /\ Len(artifact.rows) = 2

\* a digit string without its leading zeros, one digit at least
RECURSIVE Significant(_)
Significant(s) ==
    IF Len(s) > 1 /\ Head(s) = "0" THEN Significant(Tail(s)) ELSE s

\* C2 as stated: a code of digits no longer than pad gives a code_str of length
\* pad, and a longer one gives a code_str as long as the code.
C2_PaddingLawAsStated ==
    (tool = "code_str" /\ pc = "return" /\ AllDigits(code)) =>
        Len(code_str) = Max(params.pad, Len(code))

\* C2 amended: a code of digits gives a code_str whose length is the larger of
\* pad and the length of the code without its leading zeros; so it is pad for a
\* code no longer than pad, and the code's own length for a longer code that
\* does not start with a zero.
C2_PaddingLaw ==
    (tool = "code_str" /\ pc = "return" /\ AllDigits(code)) =>
        /\ Len(code_str) = Max(params.pad, Len(Significant(code)))
        /\ Len(code) <= params.pad => Len(code_str) = params.pad
        /\ (Len(code) > params.pad /\ Head(code) # "0") =>
               Len(code_str) = Len(code)

C2_Witness ==
    /\ tool = "code_str"
    /\ pc = "return"
    /\ code = <<"0", "0", "7">>
    /\ params.pad = 2
    /\ code_str = <<"0", "7">>

\* the code cells and ids the builders are given
FinInputCodes ==
    [r \in 1..Len(df.rows) |-> RowGet(df.columns, df.rows[r], sCode)]

EmpInputIds ==
    [r \in 1..Len(df2.rows) |-> RowGet(df2.columns, df2.rows[r], sId)]

\* C3 as stated: distinct input codes (and distinct employee ids) give
\* pairwise distinct symbols.
C3_SymbolsDistinctAsStated ==
    /\ (tool = "financial" /\ Built /\ Distinct(FinInputCodes)) =>
           Distinct(Symbols(out))
    /\ (tool = "personal" /\ Built /\ Distinct(RoleCodes(df))
           /\ Distinct(EmpInputIds)) =>
           Distinct(Symbols(out))

HasDot(s) == \E k \in 1..Len(s) : s[k] = "."

\* C3 amended: the symbols of one output are pairwise distinct whenever, for
\* the financial builder, the code strings derived from the codes are pairwise
\* distinct, and, for the personnel builder, the role codes are pairwise
\* distinct and free of ".", and the trimmed employee ids are pairwise
\* distinct.
C3_SymbolsDistinct ==
    /\ (tool = "financial" /\ Built
           /\ Distinct([r \in 1..Len(df.rows) |->
                           CodeStr(Strip(FinInputCodes[r]), params.pad)])) =>
           Distinct(Symbols(out))
    /\ (tool = "personal" /\ Built /\ Distinct(RoleCodes(df))
           /\ (\A r \in 1..Len(df.rows) : ~HasDot(RoleCodes(df)[r]))
           /\ Distinct([r \in 1..Len(df2.rows) |-> Strip(EmpInputIds[r])])) =>
           Distinct(Symbols(out))

C3_Witness ==
    /\ tool = "personal"
    /\ pc = "done"
    /\ Distinct(RoleCodes(df))
    /\ Distinct([r \in 1..Len(df2.rows) |-> Strip(EmpInputIds[r])])
    /\ Len(df.rows) = 2
    /\ Len(out) = 4
    /\ Distinct(Symbols(out))


\* the cells of the loaded tables
RoleCell(r, label) == RowGet(df.columns, df.rows[r], label)
EmpCell(e, label) == RowGet(df2.columns, df2.rows[e], label)

\* the rows of out whose parent is the layer's parent code
HeaderRowsOf(rows) ==
    LET IsHeader(row) == row.parent = ParentCode
    IN  SelectSeq(rows, IsHeader)

\* C4: once the personnel build_layer has returned, the rows of out under the
\* parent code are one header per role row, each with symbol parent.code, the
\* role as name and an empty input_cost, whether or not employees match.
C4_JoinCompleteness ==
    (tool = "personal" /\ Built) =>
        LET heads == HeaderRowsOf(out)
        IN  /\ Len(heads) = Len(df.rows)
            /\ \E f \in Perms(Len(df.rows)) :
                  \A k \in 1..Len(df.rows) :
                      heads[k] = [parent |-> ParentCode,
                                  symbol |-> ParentCode \o <<".">>
                                             \o RoleCell(f[k], sCode),
                                  name |-> RoleCell(f[k], sRole),
                                  input_cost |-> <<>>]

\* two roles, employees in the table, and none of them under either role
C4_Witness ==
    /\ tool = "personal"
    /\ pc = "done"
    /\ Len(df.rows) = 2
    /\ Len(df2.rows) = 2
    /\ Len(out) = 2

\* some employee row carries a non-empty _code_key
AnyEmpCodeKey == \E e \in 1..Len(df2.rows) : Len(EmpCell(e, sCodeKey)) > 0

ExpectedBranch == IF AnyEmpCodeKey THEN "code" ELSE "name"

\* C5: from the moment the loop over the roles starts, the strategy is the one
\* the employees table decides (by code iff some employee has a non-empty
\* _code_key), and every role processed so far was matched with it.
C5_JoinExclusivity ==
    (tool = "personal" /\ pc \in {"build_loop", "emit", "done"}) =>
        /\ emp_has_code = AnyEmpCodeKey
        /\ Len(branch_log) = idx
        /\ \A k \in 1..Len(branch_log) : branch_log[k] = ExpectedBranch

\* two roles matched by code although one employee has no code
C5_Witness ==
    /\ tool = "personal"
    /\ pc = "done"
    /\ branch_log = <<"code", "code">>
    /\ \E e \in 1..Len(df2.rows) : EmpCell(e, sCodeKey) = <<>>

\* the employees whose join key equals that of role r, under the strategy
MatchSet(r) ==
    {e \in 1..Len(df2.rows) :
        IF AnyEmpCodeKey
        THEN EmpCell(e, sCodeKey) = RoleCell(r, sCodeKey)
        ELSE EmpCell(e, sRoleKey) = RoleCell(r, sRoleKey)}

\* the n-th smallest member of a set of numbers
Nth(S, n) == CHOOSE m \in S : Cardinality({x \in S : x < m}) = n - 1

ExpectedBlock(r) ==
    LET sym == ParentCode \o <<".">> \o RoleCell(r, sCode)
        M == MatchSet(r)
    IN  <<[parent |-> ParentCode, symbol |-> sym, name |-> RoleCell(r, sRole),
           input_cost |-> <<>>]>>
        \o [n \in 1..Cardinality(M) |->
               [parent |-> sym,
                symbol |-> sym \o <<".">> \o Strip(EmpCell(Nth(M, n), sId)),
                name |-> Strip(EmpCell(Nth(M, n), sName)),
                input_cost |-> EmpCell(Nth(M, n), sCost)]]

RECURSIVE ExpectedBlocks(_)
ExpectedBlocks(order) ==
    IF order = <<>> THEN <<>>
    ELSE ExpectedBlock(Head(order)) \o ExpectedBlocks(Tail(order))

\* C6: out is, role after role in the order walked, the role's header followed
\* by exactly the employees whose key equals the role's, in the order of the
\* employees table, each under the role's symbol; an employee with no such
\* role is in no row, and the build does not fail for it.
C6_Blocks ==
    (tool = "personal" /\ pc \in {"build_loop", "emit", "done"}) =>
        /\ out = ExpectedBlocks(SubSeq(roles_sorted, 1, idx))
        /\ err = NoError

\* one employee under a role, another employee under no role
C6_Witness ==
    /\ tool = "personal"
    /\ pc = "done"
    /\ \E e \in 1..Len(df2.rows) : \A r \in 1..Len(df.rows) : e \notin MatchSet(r)
    /\ \E e \in 1..Len(df2.rows) : \E r \in 1..Len(df.rows) : e \in MatchSet(r)
    /\ Len(out) = Len(df.rows) + 1


\* C7 as stated: the financial normalizer accepts the accented headers
\* Codigo, Descripcion, Importe (with their accents) and returns the columns
\* code, description, value.
C7_AccentedHeadersAccepted ==
    (/\ tool = "financial"
     /\ file1.columns = <<hCodigoAcute, hDescripcionAcute, hImporte>>
     /\ pc \notin {"start", "normalize"}) =>
        /\ err = NoError
        /\ df.columns = FinRequired

RequiredOf(who) ==
    IF who = "financial" THEN FinRequired
    ELSE IF who = "roles" THEN RolesRequired
    ELSE EmpsRequired

\* the labels of the failing table after alias resolution
RenamedColumnsOf(who) ==
    IF who = "financial" THEN FinRenamed(df).columns
    ELSE IF who = "roles"
         THEN [k \in 1..Len(df.columns) |-> RolesRename(NormCols(df.columns)[k])]
    ELSE EmpsColumns(df2)

\* C8 as stated: a schema error of any of the three normalizers names every
\* missing required field and lists all the columns that were present.
C8_AllMissingNamedAsStated ==
    err.kind = "SchemaError" =>
        /\ err.missing = MissingOf(RequiredOf(err.who), err.present)
        /\ err.present = RenamedColumnsOf(err.who)

\* C8 amended: a schema error of the financial normalizer names every missing
\* required field; one of load_roles or load_emps names the first missing
\* required field only; each lists all the columns present after renaming.
C8_MissingNamed ==
    err.kind = "SchemaError" =>
        LET all == MissingOf(RequiredOf(err.who), err.present)
        IN  /\ all # <<>>
            /\ err.missing = IF err.who = "financial" THEN all ELSE <<Head(all)>>
            /\ err.present = RenamedColumnsOf(err.who)

\* a roles table without code and without role: the error names code only
C8_Witness ==
    /\ pc = "raised"
    /\ err.kind = "SchemaError"
    /\ err.who = "roles"
    /\ MissingOf(RolesRequired, err.present) = <<sCode, sRole>>
    /\ err.missing = <<sCode>>
    /\ err.present = <<<<"n", "o", "t", "a", "s">>>>

\* C9 as stated: whenever the financial normalizer succeeds, its result has the
\* columns code, description, value, once each, in that order.
C9_ExactlyRequiredColumns ==
    (tool = "financial" /\ pc \in {"build", "build_loop", "emit", "done"}) =>
        df.columns = FinRequired

StepRank(step) ==
    IF step = "ingest" THEN 1
    ELSE IF step = "normalize" THEN 2
    ELSE IF step = "build" THEN 3
    ELSE 4

NothingBuilt ==
    /\ \A k \in 1..Len(trace) : trace[k] \notin {"build", "emit"}
    /\ out = <<>>
    /\ ~artifact.written

\* C10 as stated: in both tools no step starts after a later kind of step has
\* started (ingest, normalize, build, emit), and a schema error leaves no
\* build, no emit, no rows and no artifact.
C10_PipelineOrderAsStated ==
    /\ \A i, j \in 1..Len(trace) :
          i < j => StepRank(trace[i]) <= StepRank(trace[j])
    /\ err.kind = "SchemaError" => NothingBuilt

IsPrefix(p, q) == Len(p) <= Len(q) /\ p = SubSeq(q, 1, Len(p))

StepsOf(t) ==
    IF t = "financial" THEN <<"ingest", "normalize", "build", "emit">>
    ELSE <<"ingest", "normalize", "ingest", "normalize", "build", "emit">>

\* C10 amended: the financial tool steps through ingest, normalize, build,
\* emit; the personnel tool through ingest and normalize of the roles, then
\* ingest and normalize of the employees, then build, then emit; each step
\* ends before the next starts, an artifact holds the rows of a finished build,
\* and a schema error of any table leaves no build, no emit, no rows and no
\* artifact.
C10_PipelineOrder ==
    /\ IsPrefix(trace, StepsOf(tool))
    /\ err.kind = "SchemaError" => NothingBuilt
    /\ artifact.written =>
          /\ trace = StepsOf(tool)
          /\ artifact.rows = out
          /\ idx = Len(df.rows)

\* the employees table fails its schema check after the roles were loaded
C10_Witness ==
    /\ tool = "personal"
    /\ pc = "raised"
    /\ err.kind = "SchemaError"
    /\ err.who = "empleados"
    /\ trace = <<"ingest", "normalize", "ingest", "normalize">>
    /\ Len(df.rows) = 1
    /\ NothingBuilt

\* C11: once the financial build_layer has returned, out is, in order: when
\* include_parent_row is set, one header row (parent and symbol the parent,
\* name the parent name or empty, input_cost empty); then one row per input
\* row in input order, with parent the parent, symbol the parent, a dot and
\* the code string of the row's code, name the trimmed description and
\* input_cost the value as it came; the code string of a code that does not
\* parse as a number is the trimmed code itself.
C11_FinancialOutput ==
    (tool = "financial" /\ Built) =>
        LET h == IF params.include_parent_row THEN 1 ELSE 0
        IN  /\ Len(out) = h + Len(df.rows)
            /\ h = 1 =>
                  out[1] = [parent |-> params.parent,
                            symbol |-> params.parent,
                            name |-> IF params.parent_name = sNone
                                     THEN <<>> ELSE params.parent_name,
                            input_cost |-> <<>>]
            /\ \A i \in 1..Len(df.rows) :
                  LET c == Strip(FinInputCodes[i])
                      o == out[h + i]
                  IN  /\ o.parent = params.parent
                      /\ o.symbol =
                            params.parent \o <<".">> \o CodeStr(c, params.pad)
                      /\ ~FloatParses(c) =>
                            o.symbol = params.parent \o <<".">> \o c
                      /\ o.name =
                            Strip(RowGet(df.columns, df.rows[i], sDescription))
                      /\ o.input_cost =
                            RowGet(df.columns, df.rows[i], sValue)

\* a header row, a numeric code and a text code with blanks around it, a
\* description that needs trimming
C11_Witness ==
    /\ tool = "financial"
    /\ pc = "done"
    /\ params.include_parent_row
    /\ params.parent_name = sNone
    /\ params.pad = 2
    /\ Len(df.rows) = 2
    /\ FinInputCodes = <<<<"7">>, <<" ", "A">>>>
    /\ RowGet(df.columns, df.rows[2], sDescription) = <<" ", "d", " ">>
    /\ Symbols(out) = <<<<"1", "0">>, <<"1", "0", ".", "0", "7">>,
                        <<"1", "0", ".", "A">>>>
    /\ out[3].name = <<"d">>
    /\ out[1].name = <<>>

\* the codes of the header rows of out, in the order of out
HeaderCodes ==
    LET heads == HeaderRowsOf(out)
    IN  [k \in 1..Len(heads) |->
            SubSeq(heads[k].symbol, Len(ParentCode) + 2, Len(heads[k].symbol))]

\* C12 as stated: the role headers come out in ascending order of code, two
\* codes made of digits only being compared as integers and two other codes
\* as strings ("-1" before "-2").
C12_SortOrderAsStated ==
    (tool = "personal" /\ Built) =>
        \A i, j \in 1..Len(HeaderCodes) :
            i < j =>
               /\ (AllDigits(HeaderCodes[i]) /\ AllDigits(HeaderCodes[j])) =>
                      DigitsToNat(HeaderCodes[i]) <= DigitsToNat(HeaderCodes[j])
               /\ (~AllDigits(HeaderCodes[i]) /\ ~AllDigits(HeaderCodes[j])) =>
                      StrLeq(HeaderCodes[i], HeaderCodes[j])

\* C12 amended: when the personnel build_layer returns, the role headers are
\* in ascending order of code, two codes that int() accepts (digits with an
\* optional sign) being compared as integers ("01" before "2", "-2" before
\* "-1") and two codes it rejects as strings; the two kinds never meet in one
\* output, because a roles table that holds both makes the sort raise
\* TypeError before any row is built.
C12_SortOrder ==
    /\ (tool = "personal" /\ Built) =>
          /\ ~SortKeysMixed(RoleCodes(df))
          /\ \A i, j \in 1..Len(HeaderCodes) :
                i < j =>
                   /\ (IntParses(HeaderCodes[i]) /\ IntParses(HeaderCodes[j])) =>
                          ToInt(HeaderCodes[i]) <= ToInt(HeaderCodes[j])
                   /\ (~IntParses(HeaderCodes[i]) /\ ~IntParses(HeaderCodes[j])) =>
                          StrLeq(HeaderCodes[i], HeaderCodes[j])
    /\ (/\ tool = "personal"
        /\ pc \in {"build_loop", "emit", "done", "raised"}
        /\ "build" \in {trace[k] : k \in 1..Len(trace)}
        /\ \E i, j \in 1..Len(df.rows) :
               IntParses(RoleCodes(df)[i]) /\ ~IntParses(RoleCodes(df)[j])) =>
          /\ pc = "raised"
          /\ err.kind = "TypeError"
          /\ out = <<>>
          /\ ~artifact.written

\* the roles file lists "-1" before "-2"; the headers come out "-2", "-1"
C12_Witness ==
    /\ tool = "personal"
    /\ pc = "done"
    /\ RoleCodes(df) = <<<<"-", "1">>, <<"-", "2">>>>
    /\ HeaderCodes = <<<<"-", "2">>, <<"-", "1">>>>

\* the rows of out that hold employee e: a row under a role's symbol with the
\* employee's trimmed id after it, its trimmed name and its cost
EmpRowsIn(e) ==
    {k \in 1..Len(out) :
        /\ out[k].parent # ParentCode
        /\ out[k].symbol = out[k].parent \o <<".">> \o Strip(EmpCell(e, sId))
        /\ out[k].name = Strip(EmpCell(e, sName))
        /\ out[k].input_cost = EmpCell(e, sCost)}

\* C13 as stated: once the personnel build_layer has returned from a join by
\* code (some employee has a non-empty _code_key), an employee whose own
\* _code_key is empty is in no row of out, whatever the roles are.
C13_EmptyCodeKeyUnmatched ==
    (tool = "personal" /\ Built /\ AnyEmpCodeKey) =>
        \A e \in 1..Len(df2.rows) :
            EmpCell(e, sCodeKey) = <<>> => EmpRowsIn(e) = {}

\* the join key in use, of role r and of employee e
RoleKeyInUse(r) ==
    IF AnyEmpCodeKey THEN RoleCell(r, sCodeKey) ELSE RoleCell(r, sRoleKey)

EmpKeyInUse(e) ==
    IF AnyEmpCodeKey THEN EmpCell(e, sCodeKey) ELSE EmpCell(e, sRoleKey)

\* the employees whose id, name and cost give the same output row as e's
SameRowAs(e) ==
    {x \in 1..Len(df2.rows) :
        /\ Strip(EmpCell(x, sId)) = Strip(EmpCell(e, sId))
        /\ Strip(EmpCell(x, sName)) = Strip(EmpCell(e, sName))
        /\ EmpCell(x, sCost) = EmpCell(e, sCost)}

\* C14 as stated: once the personnel build_layer has returned, every employee
\* row gave at most one row of out, and out has at most as many rows as the
\* roles table and the employees table together, whatever the roles are.
C14_AtMostOneRowPerEmployee ==
    (tool = "personal" /\ Built) =>
        /\ \A e \in 1..Len(df2.rows) :
              Cardinality(EmpRowsIn(e)) <= Cardinality(SameRowAs(e))
        /\ Len(out) <= Len(df.rows) + Len(df2.rows)

\* C14 amended: once the personnel build_layer has returned, every employee
\* row gave one row of out for each role whose join key equals its own, so
\* out has one row per role, one more per pair of a role and an employee with
\* equal keys, and at most len(roles) * (1 + len(employees)) rows; when the
\* join keys of the roles are pairwise distinct every employee row gave at
\* most one row and out has at most len(roles) + len(employees) rows.
C14_OneRowPerMatchingRole ==
    (tool = "personal" /\ Built) =>
        LET pairs == {p \in (1..Len(df.rows)) \X (1..Len(df2.rows)) :
                         RoleKeyInUse(p[1]) = EmpKeyInUse(p[2])}
        IN  /\ Len(out) = Len(df.rows) + Cardinality(pairs)
            /\ Len(out) <= Len(df.rows) * (1 + Len(df2.rows))
            /\ \A e \in 1..Len(df2.rows) :
                  Cardinality(EmpRowsIn(e)) =
                      Cardinality({p \in pairs : p[2] \in SameRowAs(e)})
            /\ Distinct([r \in 1..Len(df.rows) |-> RoleKeyInUse(r)]) =>
                  /\ \A e \in 1..Len(df2.rows) :
                        Cardinality(EmpRowsIn(e)) <= Cardinality(SameRowAs(e))
                  /\ Len(out) <= Len(df.rows) + Len(df2.rows)

\* two roles named alike up to case, joined by name: one employee, two rows
C14_Witness ==
    /\ tool = "personal"
    /\ pc = "done"
    /\ ~AnyEmpCodeKey
    /\ Len(df.rows) = 2
    /\ RoleCell(1, sRole) # RoleCell(2, sRole)
    /\ RoleCell(1, sRoleKey) = RoleCell(2, sRoleKey)
    /\ Len(df2.rows) = 1
    /\ Cardinality(EmpRowsIn(1)) = 2
    /\ Len(out) = 4

====
